---------------------------- MODULE Spec2Model ----------------------------
(***************************************************************************)
(* Model of the two RBD usage exporters of the repository.                 *)
(*                                                                         *)
(*   variant = "file": rbd_usage_exporter.py.  A collector thread          *)
(*     (collect_metrics) runs collect_to_file in a loop: it appends text   *)
(*     lines to /tmp/rbd_usage.prom.tmp and renames that file to           *)
(*     /tmp/rbd_usage.prom.  Scrapes (collect) read the renamed file.      *)
(*   variant = "du":   rbd_du_exporter.py.  A scrape (collect) runs the    *)
(*     whole collection pass itself and yields the metric table.           *)
(*                                                                         *)
(* Scrapes are handled each in a thread of the http server.  In the du      *)
(* variant the running thread's pass is held in the pass variables and the *)
(* passes of the waiting threads in `saved`.                               *)
(*                                                                         *)
(* Files are modelled as inodes with two path bindings, so that what a     *)
(* reader holding an open file sees after a rename follows from the model. *)
(* Text is modelled as sequences of one-character strings.                 *)
(***************************************************************************)
EXTENDS Integers, Sequences, FiniteSets, TLC

\* ------------------------------------------------------------------ bounds
\* Collection cycles the collector thread of the file variant may start.
MaxCycles == 2
\* Failures the environment injects into one run of the file variant: line
\* writes and renames that fail, pool-list commands that fail, usage
\* queries that return an entry without a field.
MaxFaults == 1
\* Bytes of the object-map objects that the scanner is run on.
MaxBytes == 2
\* num_objs of the images that the scanner is run on.
MaxUnits == 8

\* ------------------------------------------------------------------- text
NL == "\n"
COMMA == ","
DigitChars == <<"0", "1", "2", "3", "4", "5", "6", "7", "8", "9">>

RECURSIVE ToDigits(_)
\* str(n) of a non-negative int, as '{}'.format(n) writes it.
ToDigits(n) ==
    IF n < 10 THEN <<DigitChars[n + 1]>>
    ELSE ToDigits(n \div 10) \o <<DigitChars[(n % 10) + 1]>>

DigitValue(ch) == CHOOSE d \in 0..9 : DigitChars[d + 1] = ch

NumChars == { DigitChars[d] : d \in 1..10 } \cup {"."}

\* The value pattern [\d\.]+ of the scrape's regular expression.
IsNumText(t) ==
    /\ Len(t) > 0
    /\ \A i \in 1..Len(t) : t[i] \in NumChars

RECURSIVE FloatOf(_)
\* float(text) of a text of decimal digits.
FloatOf(t) ==
    IF Len(t) = 0 THEN 0
    ELSE 10 * FloatOf(SubSeq(t, 1, Len(t) - 1)) + DigitValue(t[Len(t)])

RECURSIVE StripLeft(_, _)
StripLeft(s, ch) ==
    IF Len(s) > 0 /\ Head(s) = ch THEN StripLeft(Tail(s), ch) ELSE s

RECURSIVE StripRight(_, _)
StripRight(s, ch) ==
    IF Len(s) > 0 /\ s[Len(s)] = ch
    THEN StripRight(SubSeq(s, 1, Len(s) - 1), ch) ELSE s

\* str.strip(ch): removes every leading and trailing ch.
Strip(s, ch) == StripRight(StripLeft(s, ch), ch)

RECURSIVE SplitFrom(_, _, _)
\* str.split(sep): cur is the field being read; always yields >= 1 field.
SplitFrom(s, sep, cur) ==
    IF Len(s) = 0 THEN <<cur>>
    ELSE IF Head(s) = sep THEN <<cur>> \o SplitFrom(Tail(s), sep, <<>>)
    ELSE SplitFrom(Tail(s), sep, Append(cur, Head(s)))

Split(s, sep) == SplitFrom(s, sep, <<>>)

Range(f) == {f[i] : i \in DOMAIN f}


\* ------------------------------------------------------------ environment
\* Outputs of `ceph config get mgr mgr/prometheus/rbd_stats_pools`.
PoolOutputs ==
    { <<>>, <<NL>>, <<"a", NL>>, <<"a", COMMA, "b", NL>> }

\* Entries of the "images" list of `rbd du --format json`: a plain one, one
\* with used_size > provisioned_size, one without the provisioned_size field.
EntryX == [name |-> "x", id |-> "1", provisioned_size |-> 5, used_size |-> 3]
EntryY == [name |-> "y", id |-> "2", provisioned_size |-> 5, used_size |-> 12]
EntryNoSize == [name |-> "y", id |-> "2", used_size |-> 3]

\* What the fallback query prints: text that is no JSON, a JSON object
\* without the "images" key, or a JSON object with an "images" list.
DuOutputs ==
    { [kind |-> "garbage", images |-> <<>>], [kind |-> "nokey", images |-> <<>>] }
    \cup { [kind |-> "json", images |-> l] :
             l \in { <<>>, <<EntryY>>, <<EntryX, EntryNoSize>> } }

\* Images of a pool (du variant): one with the object-map feature and a
\* bitmap byte 00 01 10 11, one without the feature, one with the feature
\* whose object-map object is shorter than num_objs needs.
ImageMapped ==
    [name |-> "x", id |-> "1", features |-> 13, size |-> 12, num_objs |-> 3,
     obj_size |-> 4, bitmap |-> <<27>>]
ImagePlain ==
    [name |-> "y", id |-> "2", features |-> 5, size |-> 5, num_objs |-> 2,
     obj_size |-> 4, bitmap |-> <<>>]
ImageShort ==
    [name |-> "z", id |-> "3", features |-> 8, size |-> 20, num_objs |-> 5,
     obj_size |-> 4, bitmap |-> <<27>>]

\* What rbd_inst.list(ioctx) may return for a pool.
ImageLists ==
    { <<>>, <<ImageMapped>>, <<ImagePlain>>, <<ImageShort, ImagePlain>>,
      <<ImagePlain, ImageMapped>> }

\* Bytes that together hold every code at every position, among them all
\* codes 0 (0), all codes 1 (85) and 00 01 11 10 (30), whose allocated
\* positions differ when the byte is read from its low end.
Bytes == {0, 27, 30, 85, 180, 228}
Bitmaps == UNION { [1..k -> Bytes] : k \in 0..MaxBytes }

\* image.features() values: with and without the value 8, alone and among
\* other features.
FeatureMasks == {0, 1, 5, 7, 8, 9, 13, 16, 24, 61}

\* image_stat['obj_size'] values.
ObjSizes == {1, 4}

\* The images the scanner and the resolver are exercised on.
ScanImages ==
    { [name |-> "x", id |-> "1", features |-> f, size |-> n * u,
       num_objs |-> n, obj_size |-> u, bitmap |-> b] :
        f \in FeatureMasks, n \in 0..MaxUnits, u \in ObjSizes, b \in Bitmaps }

AllScrapers == {"s1", "s2"}
Scrapers == {"s1"}

USAGE == "rbd_usage_bytes"
PROVISION == "rbd_total_provision_bytes"
DURATION == "scrape_duration_seconds"
MetricNames == {USAGE, PROVISION, DURATION}

\* One inode for each path and one for each reader that holds a file open.
InodeIds == 1..(2 + Cardinality(AllScrapers))
NoInode == 0

\* ------------------------------------------------------------------ state
VARIABLES
    variant,            \* "file" | "du": which exporter runs
    colPc,              \* position of the collection pass
    colBy,              \* thread running the pass: "collector" or a scraper
    cycle,              \* number of the current (last started) pass
    output,             \* _get_pool: raw output of the pool-list command
    rbd_pools,          \* collect_to_file / collect: the pool list
    pidx,               \* index of the pool being processed
    usage_list,         \* image_info_list / usage_list of the current pool
    uidx,               \* index of the entry being exported
    half,               \* 1: rbd_usage_bytes line next, 2: provision line next
    seqno,              \* lines produced so far by the current pass
    image_list,         \* du variant: images of the current pool
    iidx,               \* du variant: index of the image being resolved
    files,              \* inode -> [exists, lines]
    tmpPath,            \* inode bound to /tmp/rbd_usage.prom.tmp, or NoInode
    promPath,           \* inode bound to /tmp/rbd_usage.prom, or NoInode
    pubPools,           \* pool list of the pass whose rename bound promPath
    spc,                \* scraper -> position in collect
    fd,                 \* scraper -> inode it holds open, or NoInode
    fpos,               \* scraper -> next line to read
    prometheus_metrics, \* self._prometheus_metrics of the registered collector
    out,                \* scraper -> result of its last scrape
    faults,             \* failed writes / renames so far
    poolListFailed,     \* the pool-list command has failed at least once
    trail,              \* du variant: the path printed for each image of the pool
    saved,              \* du variant: scraper -> locals of its pass while another
                        \* scrape's thread runs, or NoContext
    pubCycle,           \* number of the last pass whose rename succeeded
    since               \* scraper -> pubCycle when its scrape started

vars ==
    << variant, colPc, colBy, cycle, output, rbd_pools, pidx, usage_list, uidx,
       half, seqno, image_list, iidx, files, tmpPath, promPath, pubPools, spc,
       fd, fpos, prometheus_metrics, out, faults, poolListFailed, trail, saved,
       pubCycle, since >>

colLocals == << rbd_pools, pidx, usage_list, uidx, half, image_list, iidx >>
fileVars == << files, tmpPath, promPath, pubPools, pubCycle >>
scrapeVars == << spc, fd, fpos, prometheus_metrics, out, since >>

\* pub: the pass whose rename published the file (0: not published).
NoFile == [exists |-> FALSE, lines |-> <<>>, pub |-> 0]

\* _setup_empty_prometheus_metrics: three families without samples.
EmptyMetrics == [m \in MetricNames |-> <<>>]

NoResult == [status |-> "none", err |-> "", metrics |-> EmptyMetrics]

\* No pass of the scraper is waiting for the interpreter.
NoContext == [pc |-> "idle"]

Init ==
    /\ variant \in {"file", "du"}
    /\ colPc = "idle"
    /\ colBy = "collector"
    /\ cycle = 0
    /\ output = <<>>
    /\ rbd_pools = <<>>
    /\ pidx = 1
    /\ usage_list = <<>>
    /\ uidx = 1
    /\ half = 1
    /\ seqno = 0
    /\ image_list = <<>>
    /\ iidx = 1
    /\ files = [i \in InodeIds |-> NoFile]
    /\ tmpPath = NoInode
    /\ promPath = NoInode
    /\ pubPools = <<>>
    /\ spc = [s \in AllScrapers |-> "idle"]
    /\ fd = [s \in AllScrapers |-> NoInode]
    /\ fpos = [s \in AllScrapers |-> 1]
    /\ prometheus_metrics = EmptyMetrics
    /\ out = [s \in AllScrapers |-> NoResult]
    /\ faults = 0
    /\ poolListFailed = FALSE
    /\ trail = <<>>
    /\ saved = [s \in AllScrapers |-> NoContext]
    /\ pubCycle = 0
    /\ since = [s \in AllScrapers |-> 0]

\* ------------------------------------------------------------- file system
Referenced(i, tp, pp, fds) ==
    i = tp \/ i = pp \/ \E s \in AllScrapers : fds[s] = i

\* An inode no path and no open file refers to is gone.
Reclaim(fs, tp, pp, fds) ==
    [i \in InodeIds |-> IF Referenced(i, tp, pp, fds) THEN fs[i] ELSE NoFile]

FreeInode == CHOOSE i \in InodeIds :
    /\ ~files[i].exists
    /\ \A j \in InodeIds : ~files[j].exists => i <= j

\* open(file, 'a') and f.write(data + "\r\n"): appends one line to the inode
\* bound to the temporary path, creating it when the path is unbound.
write_to_file(line) ==
    /\ IF tmpPath = NoInode
       THEN /\ files' = [files EXCEPT ![FreeInode] =
                           [exists |-> TRUE, lines |-> <<line>>, pub |-> 0]]
            /\ tmpPath' = FreeInode
       ELSE /\ files' = [files EXCEPT ![tmpPath].lines = Append(@, line)]
            /\ tmpPath' = tmpPath
    /\ UNCHANGED <<promPath, pubPools, pubCycle, faults>>

\* open or write raises (disk full, permissions): caught and printed.
write_to_file_fails ==
    /\ faults < MaxFaults
    /\ faults' = faults + 1
    /\ UNCHANGED fileVars

\* ---------------------------------------------------------------- lines
\* A text line of the temporary file.  cyc, seq and src are history fields:
\* the pass that produced the line, its rank among that pass's lines and the
\* number the usage query returned for it.
Line(metric, image, pool, id, text, src) ==
    [metric |-> metric, image |-> image, pool |-> pool, id |-> id,
     text |-> text, cyc |-> cycle, seq |-> seqno + 1, src |-> src]

\* UsageLine with used_size clamped to provisioned_size.
UsageLineClamped(data, pool) ==
    Line(USAGE, data.name, pool, data.id,
         ToDigits(IF "provisioned_size" \in DOMAIN data
                     /\ data.used_size > data.provisioned_size
                  THEN data.provisioned_size ELSE data.used_size),
         data.used_size)

\* 'rbd_usage_bytes{image="..",pool="..",id=".."} <used_size>'
UsageLine(data, pool) ==
    Line(USAGE, data.name, pool, data.id, ToDigits(data.used_size), data.used_size)

\* 'rbd_total_provision_bytes{image="..",pool="..",id=".."} <provisioned_size>'
ProvisionLine(data, pool) ==
    Line(PROVISION, data.name, pool, data.id,
         ToDigits(data.provisioned_size), data.provisioned_size)

\* 'scrape_duration_seconds <duration>': a float such as 0.5
DurationLine ==
    Line(DURATION, "", <<>>, "", <<"0", ".", "5">>, 0)

\* ----------------------------------------------------- pool enumeration
\* _get_pool on the command's output.
get_pool(o) ==
    IF o # <<>> THEN Split(Strip(o, NL), COMMA) ELSE <<>>

\* The pass ends by an exception that leaves collect_to_file / collect.
\* file: collect_metrics catches it and loops; du: the scrape fails.
Raise(err) ==
    /\ colPc' = "idle"
    /\ colBy' = "collector"
    /\ output' = <<>> /\ seqno' = 0
    /\ rbd_pools' = <<>> /\ pidx' = 1 /\ usage_list' = <<>> /\ uidx' = 1
    /\ half' = 1 /\ image_list' = <<>> /\ iidx' = 1 /\ trail' = <<>>
    /\ IF variant = "du"
       THEN /\ spc' = [spc EXCEPT ![colBy] = "idle"]
            /\ out' = [out EXCEPT ![colBy] =
                          [status |-> "error", err |-> err, metrics |-> EmptyMetrics]]
       ELSE UNCHANGED <<spc, out>>

\* collect_metrics: the next iteration of `while True` calls collect_to_file.
F_CycleStart ==
    /\ variant = "file"
    /\ colPc = "idle"
    /\ cycle < MaxCycles
    /\ cycle' = cycle + 1
    /\ colPc' = "get_pool"
    /\ UNCHANGED <<variant, colBy, output, seqno, colLocals, fileVars, scrapeVars,
                   faults, poolListFailed, trail, saved>>

\* `for p in rbd_pools`: the position once pool number i is the next one.
LoopPc(pools, i) == IF i <= Len(pools) THEN "pool_loop" ELSE "duration"

\* _get_pool returns the pool list, for a command output of the set outs.
GetPoolOf(outs) ==
    /\ colPc = "get_pool"
    /\ \E o \in outs :
         /\ output' = o
         /\ rbd_pools' = get_pool(o)
         /\ colPc' = LoopPc(get_pool(o), 1)
    /\ pidx' = 1
    /\ UNCHANGED <<variant, colBy, cycle, usage_list, uidx, half, seqno,
                   image_list, iidx, fileVars, scrapeVars, faults, poolListFailed, trail, saved>>

GetPool == GetPoolOf(PoolOutputs)

\* subprocess.check_output raises in _get_pool (non-zero exit, no ceph).
GetPoolFails ==
    /\ colPc = "get_pool"
    /\ poolListFailed' = TRUE
    /\ Raise("CalledProcessError")
    /\ IF variant = "file"
       THEN faults < MaxFaults /\ faults' = faults + 1
       ELSE faults' = faults
    /\ UNCHANGED <<variant, cycle, fileVars, fd, fpos, since,
                   prometheus_metrics, saved>>

\* _get_usage (file variant) on what `rbd du -p pool` printed.
get_usage(info) ==
    IF info.kind = "json" /\ Len(info.images) > 0 THEN info.images ELSE <<>>

\* The output holds an entry without one of the fields that are exported.
LacksField(info) ==
    \E i \in DOMAIN info.images :
        ~({"name", "id", "used_size", "provisioned_size"} \subseteq DOMAIN info.images[i])

\* collect_to_file: _get_usage(p) runs the usage query of the next pool and
\* parses its output (one of infos); an empty list leaves nothing to export
\* for the pool.
F_GetUsageOf(infos) ==
    /\ variant = "file"
    /\ colPc = "pool_loop"
    /\ \E info \in infos :
         /\ usage_list' = get_usage(info)
         /\ IF get_usage(info) = <<>>
            THEN pidx' = pidx + 1 /\ colPc' = LoopPc(rbd_pools, pidx + 1)
            ELSE pidx' = pidx /\ colPc' = "update"
         /\ IF LacksField(info)
            THEN faults < MaxFaults /\ faults' = faults + 1
            ELSE faults' = faults
    /\ uidx' = 1
    /\ half' = 1
    /\ UNCHANGED <<variant, colBy, cycle, output, rbd_pools, seqno,
                   image_list, iidx, fileVars, scrapeVars, poolListFailed, trail, saved>>

F_GetUsage == F_GetUsageOf(DuOutputs)

\* The usage query never returns: Popen and res.stdout.read() set no
\* timeout, so the pass stays blocked in the read for ever.
F_DuOverdue ==
    /\ variant = "file"
    /\ colPc = "pool_loop"
    /\ colPc' = "du_overdue"
    /\ UNCHANGED <<variant, colBy, cycle, output, colLocals, seqno, fileVars,
                   scrapeVars, faults, poolListFailed, trail, saved>>

\* The fields a line of _update_usage_metrics reads from an entry.
\* The du variant exports no id label.
FieldsOf(h) ==
    (IF variant = "file" THEN {"name", "id"} ELSE {"name"})
    \cup (IF h = 1 THEN {"used_size"} ELSE {"provisioned_size"})

\* _update_usage_metrics (file variant): one _write_to_file call; after the
\* last line of the last entry the pool loop goes on.
F_UpdateLine ==
    /\ variant = "file"
    /\ colPc = "update"
    /\ FieldsOf(half) \subseteq DOMAIN usage_list[uidx]
    /\ LET data == usage_list[uidx]
           pool == rbd_pools[pidx]
           line == IF half = 1 THEN UsageLine(data, pool) ELSE ProvisionLine(data, pool)
       IN  write_to_file(line) \/ write_to_file_fails
    /\ seqno' = seqno + 1
    /\ IF half = 1
       THEN /\ half' = 2
            /\ UNCHANGED <<uidx, usage_list, pidx, colPc>>
       ELSE /\ half' = 1
            /\ IF uidx < Len(usage_list)
               THEN uidx' = uidx + 1 /\ UNCHANGED <<usage_list, pidx, colPc>>
               ELSE /\ uidx' = 1
                    /\ usage_list' = <<>>
                    /\ pidx' = pidx + 1
                    /\ colPc' = LoopPc(rbd_pools, pidx + 1)
    /\ UNCHANGED <<variant, colBy, cycle, output, rbd_pools, image_list, iidx,
                   scrapeVars, poolListFailed, trail, saved>>

\* _update_usage_metrics: data[...] raises KeyError for an absent field.
\* Nothing in collect_to_file / collect catches it.
UpdateKeyError ==
    /\ colPc = "update"
    /\ ~(FieldsOf(half) \subseteq DOMAIN usage_list[uidx])
    /\ Raise("KeyError")
    /\ UNCHANGED <<variant, cycle, fileVars, fd, fpos, since,
                   prometheus_metrics, faults, poolListFailed, saved>>

\* collect_to_file: writes the scrape_duration_seconds line.
F_Duration ==
    /\ variant = "file"
    /\ colPc = "duration"
    /\ write_to_file(DurationLine) \/ write_to_file_fails
    /\ seqno' = seqno + 1
    /\ colPc' = "rename"
    /\ UNCHANGED <<variant, colBy, cycle, output, colLocals, scrapeVars,
                   poolListFailed, trail, saved>>

\* os.rename(tmp, prom) binds the published path to the temporary inode.
rename_tmp ==
    /\ tmpPath # NoInode
    /\ promPath' = tmpPath
    /\ tmpPath' = NoInode
    /\ files' = Reclaim([files EXCEPT ![tmpPath].pub = cycle], NoInode, tmpPath, fd)
    /\ pubPools' = rbd_pools
    /\ pubCycle' = cycle
    /\ UNCHANGED faults

\* os.rename raises: no temporary file, or the system call fails.
rename_tmp_fails ==
    /\ \/ tmpPath = NoInode /\ UNCHANGED faults
       \/ tmpPath # NoInode /\ faults < MaxFaults /\ faults' = faults + 1
    /\ UNCHANGED fileVars

\* _rename_tmp, then collect_to_file returns to collect_metrics.
F_Rename ==
    /\ variant = "file"
    /\ colPc = "rename"
    /\ rename_tmp \/ rename_tmp_fails
    /\ colPc' = "idle"
    /\ output' = <<>> /\ seqno' = 0
    /\ rbd_pools' = <<>> /\ pidx' = 1 /\ usage_list' = <<>> /\ uidx' = 1
    /\ half' = 1
    /\ UNCHANGED <<variant, colBy, cycle, image_list, iidx,
                   scrapeVars, poolListFailed, trail, saved>>

\* ------------------------------------------------------ scrape (file variant)
\* A sample of a GaugeMetricFamily, with the history fields of its line, the
\* scrape that added it (by) and the pass that published the file it was
\* read from (snap).
Sample(labels, value, line, s) ==
    [labels |-> labels, value |-> value, cyc |-> line.cyc, seq |-> line.seq,
     src |-> line.src, by |-> s, snap |-> files[fd[s]].pub]

\* ^(\w+)\{(.+?)\}\s+([\d\.]+)$ matches the lines that carry labels and a
\* numeric value.
Matches(line) == line.metric # DURATION /\ IsNumText(line.text)

\* (\w+)="(.+?)"(?:,|$) needs a non-empty value: over pool="" it runs on to
\* the closing quote of id, so that the dict has no 'id' key.
LabelsParse(line) == line.image # "" /\ line.pool # <<>> /\ line.id # ""

\* collect: the sample a line adds to its metric family.
ParseLine(line, s) ==
    IF Matches(line)
    THEN Sample(<<line.image, line.pool, line.id>>, FloatOf(line.text), line, s)
    ELSE Sample(<<>>, line.text, line, s)

\* collect: whether handling the line raises KeyError.
LineRaises(line) ==
    IF Matches(line) THEN ~LabelsParse(line) ELSE line.metric # DURATION

\* collect: self._setup_empty_prometheus_metrics(), then
\* open('/tmp/rbd_usage.prom', 'r'), which raises when the path is unbound.
S_Open(s) ==
    /\ variant = "file"
    /\ spc[s] = "idle"
    /\ prometheus_metrics' = EmptyMetrics
    /\ since' = [since EXCEPT ![s] = pubCycle]
    /\ IF promPath = NoInode
       THEN /\ out' = [out EXCEPT ![s] =
                   [status |-> "error", err |-> "FileNotFoundError",
                    metrics |-> EmptyMetrics]]
            /\ UNCHANGED <<spc, fd, fpos>>
       ELSE /\ fd' = [fd EXCEPT ![s] = promPath]
            /\ fpos' = [fpos EXCEPT ![s] = 1]
            /\ spc' = [spc EXCEPT ![s] = "read"]
            /\ out' = [out EXCEPT ![s] = NoResult]
    /\ UNCHANGED <<variant, colPc, colBy, cycle, output, colLocals, seqno,
                   fileVars, faults, poolListFailed, trail, saved>>

\* collect: one iteration of `for line in f`.
S_ReadLine(s) ==
    /\ spc[s] = "read"
    /\ fpos[s] <= Len(files[fd[s]].lines)
    /\ LET line == files[fd[s]].lines[fpos[s]]
       IN  IF LineRaises(line)
           THEN /\ out' = [out EXCEPT ![s] =
                       [status |-> "error", err |-> "KeyError",
                        metrics |-> EmptyMetrics]]
                /\ spc' = [spc EXCEPT ![s] = "idle"]
                /\ fd' = [fd EXCEPT ![s] = NoInode]
                /\ fpos' = [fpos EXCEPT ![s] = 1]
                /\ files' = Reclaim(files, tmpPath, promPath, fd')
                /\ UNCHANGED prometheus_metrics
           ELSE /\ prometheus_metrics' =
                       [prometheus_metrics EXCEPT ![line.metric] =
                           Append(@, ParseLine(line, s))]
                /\ fpos' = [fpos EXCEPT ![s] = fpos[s] + 1]
                /\ UNCHANGED <<out, spc, fd, files>>
    /\ UNCHANGED <<variant, colPc, colBy, cycle, output, colLocals, seqno,
                   tmpPath, promPath, pubPools, pubCycle, since, faults,
                   poolListFailed, trail, saved>>

\* collect: end of file; the file is closed and the families are yielded.
S_Yield(s) ==
    /\ spc[s] = "read"
    /\ fpos[s] > Len(files[fd[s]].lines)
    /\ out' = [out EXCEPT ![s] =
            [status |-> "ok", err |-> "", metrics |-> prometheus_metrics]]
    /\ spc' = [spc EXCEPT ![s] = "idle"]
    /\ fd' = [fd EXCEPT ![s] = NoInode]
    /\ fpos' = [fpos EXCEPT ![s] = 1]
    /\ files' = Reclaim(files, tmpPath, promPath, fd')
    /\ UNCHANGED <<variant, colPc, colBy, cycle, output, colLocals, seqno,
                   tmpPath, promPath, pubPools, pubCycle, since,
                   prometheus_metrics, faults, poolListFailed, trail, saved>>

\* ------------------------------------------------- collection (du variant)
object_map_feature == 8

\* has_object_map_feature that takes any feature of value 8 or more.
has_high_feature(image) == image.features >= object_map_feature

\* _has_object_map_feature: (features & 8) == 8
has_object_map_feature(image) ==
    ((image.features \div object_map_feature) % 2) * object_map_feature
        = object_map_feature

\* ioctx.read(obj_name, 1, floor(i / 4)): one byte, or nothing past the end.
ReadByte(image, i) ==
    IF (i \div 4) + 1 <= Len(image.bitmap)
    THEN <<image.bitmap[(i \div 4) + 1]>> ELSE <<>>

\* ObjectMapCode with the first of the four entries in the low bits.
ObjectMapCodeLow(byte, i) == (byte \div (2 ^ (2 * (i % 4)))) % 4

\* (byte >> (6 - 2 * (i % 4))) & 0x3
ObjectMapCode(byte, i) == (byte \div (2 ^ (6 - 2 * (i % 4)))) % 4

\* [0] of an empty read raises IndexError.
ScanReadable(image) ==
    \A i \in 1..(image.num_objs - 1) : ReadByte(image, i) # <<>>

RECURSIVE ScanFrom(_, _, _)
\* The loop `for i in range(1, num_objs)` from unit i on, with the counter
\* `allocated` so far.
ScanFrom(image, i, allocated) ==
    IF i >= image.num_objs THEN allocated
    ELSE LET v == ObjectMapCode(ReadByte(image, i)[1], i)
         IN  ScanFrom(image, i + 1,
                      IF v = 1 \/ v = 2 THEN allocated + 1 ELSE allocated)

\* allocated = 0, then the scan.
Allocated(image) == ScanFrom(image, 1, 0)

\* image_info of the object-map branch.
ImageInfo(image) ==
    [name |-> image.name, id |-> image.id, provisioned_size |-> image.size,
     used_size |-> Allocated(image) * image.obj_size]

\* The fallback branch: json.loads, then `if 'images' in output.keys()`.
du_usage(info) == IF info.kind = "json" THEN info.images ELSE <<>>

\* The locals of the pass of the running thread.
Context ==
    [pc |-> colPc, output |-> output, rbd_pools |-> rbd_pools, pidx |-> pidx,
     usage_list |-> usage_list, uidx |-> uidx, half |-> half, seqno |-> seqno,
     image_list |-> image_list, iidx |-> iidx, trail |-> trail]

\* The running pass, if there is one, is kept for its thread.
SaveRunning(sv) ==
    [t \in AllScrapers |->
        IF t = colBy /\ colPc # "idle" THEN Context ELSE sv[t]]

\* collect (du variant): a scrape starts; the metric table is reset and the
\* pass begins in the scrape's thread.
D_ScrapeStart(s) ==
    /\ variant = "du"
    /\ spc[s] = "idle"
    /\ prometheus_metrics' = EmptyMetrics
    /\ spc' = [spc EXCEPT ![s] = "collect"]
    /\ out' = [out EXCEPT ![s] = NoResult]
    /\ saved' = SaveRunning(saved)
    /\ colBy' = s
    /\ colPc' = "get_pool"
    /\ output' = <<>> /\ seqno' = 0
    /\ rbd_pools' = <<>> /\ pidx' = 1 /\ usage_list' = <<>> /\ uidx' = 1
    /\ half' = 1 /\ image_list' = <<>> /\ iidx' = 1 /\ trail' = <<>>
    /\ UNCHANGED <<variant, cycle, fileVars, fd, fpos, since, faults,
                   poolListFailed>>

\* The interpreter hands over to the thread of scrape s, whose pass goes on
\* where it stopped; the pass that was running waits.
D_Switch(s) ==
    /\ variant = "du"
    /\ saved[s] # NoContext
    /\ saved' = [SaveRunning(saved) EXCEPT ![s] = NoContext]
    /\ colBy' = s
    /\ colPc' = saved[s].pc
    /\ output' = saved[s].output
    /\ rbd_pools' = saved[s].rbd_pools
    /\ pidx' = saved[s].pidx
    /\ usage_list' = saved[s].usage_list
    /\ uidx' = saved[s].uidx
    /\ half' = saved[s].half
    /\ seqno' = saved[s].seqno
    /\ image_list' = saved[s].image_list
    /\ iidx' = saved[s].iidx
    /\ trail' = saved[s].trail
    /\ UNCHANGED <<variant, cycle, fileVars, scrapeVars, faults, poolListFailed>>

\* _get_usage: the pool is opened and its images (one of lists) are listed.
D_OpenPoolOf(lists) ==
    /\ variant = "du"
    /\ colPc = "pool_loop"
    /\ \E imgs \in lists :
         /\ image_list' = imgs
         /\ IF imgs = <<>>
            THEN pidx' = pidx + 1 /\ colPc' = LoopPc(rbd_pools, pidx + 1)
            ELSE pidx' = pidx /\ colPc' = "image_loop"
    /\ iidx' = 1
    /\ usage_list' = <<>>
    /\ trail' = <<>>
    /\ UNCHANGED <<variant, colBy, cycle, output, rbd_pools, uidx, half, seqno,
                   fileVars, scrapeVars, faults, poolListFailed, saved>>

D_OpenPool == D_OpenPoolOf(ImageLists)

\* rados.Rados(...), cluster.open_ioctx(pool) or rbd_inst.list(ioctx) raises:
\* nothing in _get_usage or collect catches it.
D_OpenPoolFails ==
    /\ variant = "du"
    /\ colPc = "pool_loop"
    /\ Raise("ObjectNotFound")
    /\ UNCHANGED <<variant, cycle, fileVars, fd, fpos, since,
                   prometheus_metrics, faults, poolListFailed, saved>>

\* `for image_name in image_list` goes on with image_info_list = list; after
\* the last image _get_usage returns and _update_usage_metrics starts.
AfterImage(list, path) ==
    /\ usage_list' = list
    /\ trail' = Append(trail, path)
    /\ uidx' = 1
    /\ half' = 1
    /\ IF iidx < Len(image_list)
       THEN iidx' = iidx + 1 /\ UNCHANGED <<image_list, pidx, colPc>>
       ELSE /\ iidx' = 1
            /\ image_list' = <<>>
            /\ IF list = <<>>
               THEN pidx' = pidx + 1 /\ colPc' = LoopPc(rbd_pools, pidx + 1)
               ELSE pidx' = pidx /\ colPc' = "update"
    /\ UNCHANGED <<variant, colBy, cycle, output, rbd_pools, seqno, fileVars,
                   scrapeVars, faults, poolListFailed, saved>>

\* rbd.Image(ioctx, image_name) raises: caught by the outer except.
D_ImageOpenFails ==
    /\ variant = "du"
    /\ colPc = "image_loop"
    /\ AfterImage(usage_list, "open_error")

\* The object-map branch runs to its end and appends image_info.
D_Scan ==
    /\ variant = "du"
    /\ colPc = "image_loop"
    /\ has_object_map_feature(image_list[iidx])
    /\ ScanReadable(image_list[iidx])
    /\ AfterImage(Append(usage_list, ImageInfo(image_list[iidx])), "object_map")

RECURSIVE ScanUntilError(_, _, _)
\* The scan up to the first read that returns nothing.
ScanUntilError(image, i, allocated) ==
    IF i >= image.num_objs \/ ReadByte(image, i) = <<>> THEN allocated
    ELSE LET v == ObjectMapCode(ReadByte(image, i)[1], i)
         IN  ScanUntilError(image, i + 1,
                            IF v = 1 \/ v = 2 THEN allocated + 1 ELSE allocated)

\* D_ScanFails that appends an image_info holding what the scan had counted
\* when a read failed.
D_ScanFailsPartial ==
    /\ variant = "du"
    /\ colPc = "image_loop"
    /\ has_object_map_feature(image_list[iidx])
    /\ AfterImage(
         IF ScanReadable(image_list[iidx]) THEN usage_list
         ELSE Append(usage_list,
                     [name |-> image_list[iidx].name, id |-> image_list[iidx].id,
                      provisioned_size |-> image_list[iidx].size,
                      used_size |-> ScanUntilError(image_list[iidx], 1, 0)
                                        * image_list[iidx].obj_size]),
         "object_map_error")

\* A call of the object-map branch raises (image.stat, ioctx.read, or [0] of
\* an empty read): caught by the outer except, the loop continues.
D_ScanFails ==
    /\ variant = "du"
    /\ colPc = "image_loop"
    /\ has_object_map_feature(image_list[iidx])
    /\ AfterImage(usage_list, "object_map_error")

\* The fallback branch: `rbd du -p pool image` returns within the timeout
\* and prints one of infos.
D_FallbackOf(infos) ==
    /\ variant = "du"
    /\ colPc = "image_loop"
    /\ ~has_object_map_feature(image_list[iidx])
    /\ \E info \in infos : AfterImage(usage_list \o du_usage(info), "du")

D_Fallback == D_FallbackOf(DuOutputs)

\* The fallback query has not returned after five minutes.
D_DuOverdue ==
    /\ variant = "du"
    /\ colPc = "image_loop"
    /\ ~has_object_map_feature(image_list[iidx])
    /\ colPc' = "du_overdue"
    /\ UNCHANGED <<variant, colBy, cycle, output, colLocals, seqno, fileVars,
                   scrapeVars, faults, poolListFailed, trail, saved>>

\* check_output(cmd, timeout=300) raises TimeoutExpired: caught and printed.
D_DuTimeout ==
    /\ variant = "du"
    /\ colPc = "du_overdue"
    /\ AfterImage(usage_list, "du_timeout")

\* add_metric of the du variant: the sample of one entry for one family.
DuSample(data, pool, h) ==
    [labels |-> <<data.name, pool>>,
     value |-> IF h = 1 THEN data.used_size ELSE data.provisioned_size,
     cyc |-> cycle, seq |-> seqno + 1,
     src |-> IF h = 1 THEN data.used_size ELSE data.provisioned_size,
     by |-> colBy, snap |-> 0]

\* _update_usage_metrics (du variant): one add_metric call.
D_UpdateSample ==
    /\ variant = "du"
    /\ colPc = "update"
    /\ FieldsOf(half) \subseteq DOMAIN usage_list[uidx]
    /\ prometheus_metrics' =
           [prometheus_metrics EXCEPT ![IF half = 1 THEN USAGE ELSE PROVISION] =
               Append(@, DuSample(usage_list[uidx], rbd_pools[pidx], half))]
    /\ seqno' = seqno + 1
    /\ IF half = 1
       THEN /\ half' = 2
            /\ UNCHANGED <<uidx, usage_list, pidx, colPc>>
       ELSE /\ half' = 1
            /\ IF uidx < Len(usage_list)
               THEN uidx' = uidx + 1 /\ UNCHANGED <<usage_list, pidx, colPc>>
               ELSE /\ uidx' = 1
                    /\ usage_list' = <<>>
                    /\ pidx' = pidx + 1
                    /\ colPc' = LoopPc(rbd_pools, pidx + 1)
    /\ UNCHANGED <<variant, colBy, cycle, output, rbd_pools, image_list, iidx,
                   fileVars, spc, fd, fpos, out, since, faults, poolListFailed,
                   trail, saved>>

\* collect (du variant): the duration sample is added and the families are
\* yielded to the scrape.
D_Yield ==
    /\ variant = "du"
    /\ colPc = "duration"
    /\ LET table == [prometheus_metrics EXCEPT ![DURATION] =
                        Append(@, [labels |-> <<>>, value |-> <<"0", ".", "5">>,
                                   cyc |-> cycle, seq |-> seqno + 1, src |-> 0,
                                   by |-> colBy, snap |-> 0])]
       IN  /\ prometheus_metrics' = table
           /\ out' = [out EXCEPT ![colBy] =
                         [status |-> "ok", err |-> "", metrics |-> table]]
    /\ spc' = [spc EXCEPT ![colBy] = "idle"]
    /\ colPc' = "idle"
    /\ colBy' = "collector"
    /\ output' = <<>> /\ seqno' = 0
    /\ rbd_pools' = <<>> /\ pidx' = 1
    /\ pubPools' = rbd_pools
    /\ trail' = <<>>
    /\ UNCHANGED <<variant, cycle, usage_list, uidx, half, image_list, iidx,
                   files, tmpPath, promPath, pubCycle, fd, fpos, since, faults,
                   poolListFailed, saved>>

\* ------------------------------------------------------------ specification
\* The steps of a collection pass, in either variant.
Collector ==
    \/ F_CycleStart \/ GetPool \/ GetPoolFails \/ F_GetUsage \/ F_DuOverdue
    \/ F_UpdateLine \/ UpdateKeyError \/ F_Duration \/ F_Rename
    \/ D_OpenPool \/ D_OpenPoolFails \/ D_ImageOpenFails \/ D_Scan
    \/ D_ScanFails \/ D_Fallback \/ D_DuOverdue \/ D_DuTimeout
    \/ D_UpdateSample \/ D_Yield

Next ==
    \/ Collector
    \/ \E s \in Scrapers :
         S_Open(s) \/ S_ReadLine(s) \/ S_Yield(s) \/ D_ScrapeStart(s)

Spec == Init /\ [][Next]_vars

\* What the cluster holds in the runs with concurrent scrapes: one pool, one
\* image in it, one entry printed by a usage query.
ConcPoolOutputs == { <<"a", NL>> }
ConcDuOutputs == { [kind |-> "json", images |-> <<EntryY>>] }
ConcImageLists == { <<ImagePlain>>, <<ImageMapped>> }

\* The exporters with scrapes that are handled at the same time, each in a
\* thread of the http server.
ConcNext ==
    \/ F_CycleStart \/ GetPoolOf(ConcPoolOutputs) \/ F_GetUsageOf(ConcDuOutputs)
    \/ F_UpdateLine \/ F_Duration \/ F_Rename
    \/ D_OpenPoolOf(ConcImageLists) \/ D_Scan \/ D_FallbackOf(ConcDuOutputs)
    \/ D_UpdateSample \/ D_Yield
    \/ \E s \in AllScrapers :
         \/ S_Open(s) \/ S_ReadLine(s) \/ S_Yield(s)
         \/ D_ScrapeStart(s) \/ D_Switch(s)

ConcSpec == Init /\ [][ConcNext]_vars

\* A pass of the du exporter that has reached the image loop of a pool
\* holding one image.
ScanInit ==
    /\ variant = "du"
    /\ colPc = "image_loop"
    /\ colBy = "s1"
    /\ cycle = 0
    /\ output = <<"a", NL>>
    /\ rbd_pools = get_pool(<<"a", NL>>)
    /\ pidx = 1
    /\ usage_list = <<>>
    /\ uidx = 1
    /\ half = 1
    /\ seqno = 0
    /\ \E image \in ScanImages : image_list = <<image>>
    /\ iidx = 1
    /\ files = [i \in InodeIds |-> NoFile]
    /\ tmpPath = NoInode
    /\ promPath = NoInode
    /\ pubPools = <<>>
    /\ spc = [s \in AllScrapers |-> IF s = "s1" THEN "collect" ELSE "idle"]
    /\ fd = [s \in AllScrapers |-> NoInode]
    /\ fpos = [s \in AllScrapers |-> 1]
    /\ prometheus_metrics = EmptyMetrics
    /\ out = [s \in AllScrapers |-> NoResult]
    /\ faults = 0
    /\ poolListFailed = FALSE
    /\ trail = <<>>
    /\ saved = [s \in AllScrapers |-> NoContext]
    /\ pubCycle = 0
    /\ since = [s \in AllScrapers |-> 0]

\* The rest of that pass.
ScanNext ==
    \/ D_ImageOpenFails \/ D_Scan \/ D_ScanFails \/ D_Fallback \/ D_DuOverdue
    \/ D_DuTimeout \/ D_UpdateSample \/ UpdateKeyError \/ D_Yield

ScanSpec == ScanInit /\ [][ScanNext]_vars

\* ------------------------------------------------------------------ claims
\* The samples of a metric table, as (pass, rank) pairs.
Tags(tbl) ==
    UNION { { <<tbl[m][i].cyc, tbl[m][i].seq>> : i \in DOMAIN tbl[m] } : m \in MetricNames }

Count(tbl) == Len(tbl[USAGE]) + Len(tbl[PROVISION]) + Len(tbl[DURATION])

\* The table holds every line one pass produced, and nothing else: one
\* duration sample, which is that pass's last line, and the ranks 1..n.
CompleteTable(tbl) ==
    /\ Len(tbl[DURATION]) = 1
    /\ \A t \in Tags(tbl) : t[1] = tbl[DURATION][1].cyc
    /\ { t[2] : t \in Tags(tbl) } = 1..Count(tbl)
    /\ tbl[DURATION][1].seq = Count(tbl)

\* The same, of the lines of a file.
CompleteFile(lines) ==
    /\ Len(lines) >= 1
    /\ \A i \in DOMAIN lines :
         /\ lines[i].cyc = lines[1].cyc
         /\ lines[i].seq = i
         /\ (lines[i].metric = DURATION) <=> (i = Len(lines))

\* C1: in the file-backed exporter every scrape that returns a body returns
\* the complete output of exactly one collection cycle: every line that
\* cycle produced, and no line of another cycle.
C1_ScrapeReturnsOneCompleteCycle ==
    \A s \in Scrapers :
        (variant = "file" /\ out[s].status = "ok") => CompleteTable(out[s].metrics)

\* C2: after any sequence of collection cycles the published file holds
\* exactly the lines one single cycle produced: its usage lines followed by
\* one scrape_duration_seconds line.
C2_PublishedIsOneCycle ==
    promPath # NoInode => CompleteFile(files[promPath].lines)

\* C3: while no snapshot has been published, a scrape returns an empty body
\* and does not fail.
C3_ScrapeBeforeFirstPublishIsEmpty ==
    (variant = "file" /\ promPath = NoInode) =>
        \A s \in Scrapers :
            /\ out[s].status # "error"
            /\ out[s].metrics = EmptyMetrics

\* C4: a scrape never triggers collection: no step of a collection pass
\* (pool enumeration, image enumeration, usage resolution) runs in the
\* handling of a scrape.
C4_ScrapeNeverCollects ==
    \A s \in Scrapers : ~(spc[s] # "idle" /\ colBy = s /\ colPc # "idle")

\* The step at which a pass publishes: _rename_tmp, or the yield of the
\* families (du variant).
AtPublishStep ==
    \/ variant = "file" /\ colPc = "rename"
    \/ variant = "du" /\ colPc = "duration"

\* C5: once its pool list is known, a collection cycle ends only through its
\* publish step, whatever happens at per-pool or per-image granularity.
C5_CycleAlwaysPublishes ==
    [][(colPc \notin {"idle", "get_pool"} /\ colPc' = "idle") => AtPublishStep]_vars

\* C6: a cycle whose fallback query has not returned within its bound goes
\* on (the timed-out query contributes nothing and the cycle completes): it
\* is never left without a step to take.
C6_TimedOutCycleGoesOn ==
    colPc = "du_overdue" => ENABLED Collector

\* C7: once the pool-list query has failed, no further collection cycle
\* starts and no further scrape is handled.
C7_PoolListFailureAborts ==
    [][poolListFailed =>
          /\ (colPc = "idle" => colPc' = "idle")
          /\ \A s \in Scrapers : spc[s] = "idle" => spc'[s] = "idle"]_vars

\* The output holds no pool name: it is empty or holds line terminators only.
NoPoolNames(o) == \A i \in DOMAIN o : o[i] = NL

\* C8: when the pool-list output holds no pool name the cycle enumerates
\* zero pools, so that it goes straight to its duration and publish steps.
C8_NoNamesMeansNoPools ==
    (colPc \notin {"idle", "get_pool"} /\ NoPoolNames(output)) =>
        /\ rbd_pools = <<>>
        /\ colPc \in {"duration", "rename"}

\* The usage samples of a table carry the values the usage query returned.
TableUnmodified(tbl) ==
    \A m \in {USAGE, PROVISION} : \A i \in DOMAIN tbl[m] : tbl[m][i].value = tbl[m][i].src

\* C9: the provisioned_size and used_size of every exported entry equal the
\* values the usage query returned for it, in the temporary and published
\* files, in the metric table and in every scrape's result, also when
\* used_size is greater than provisioned_size.
C9_ValuesUnmodified ==
    /\ \A f \in InodeIds : \A i \in DOMAIN files[f].lines :
         files[f].lines[i].metric # DURATION =>
             /\ IsNumText(files[f].lines[i].text)
             /\ FloatOf(files[f].lines[i].text) = files[f].lines[i].src
    /\ TableUnmodified(prometheus_metrics)
    /\ \A s \in Scrapers : TableUnmodified(out[s].metrics)

\* A scrape has returned an entry whose used_size exceeds its
\* provisioned_size, read from the published file.
C9_Witness ==
    \E s \in Scrapers :
        /\ variant = "file"
        /\ out[s].status = "ok"
        /\ \E i \in DOMAIN out[s].metrics[USAGE] :
           \E j \in DOMAIN out[s].metrics[PROVISION] :
             /\ out[s].metrics[USAGE][i].labels = out[s].metrics[PROVISION][j].labels
             /\ out[s].metrics[USAGE][i].value = EntryY.used_size
             /\ out[s].metrics[PROVISION][j].value = EntryY.provisioned_size
             /\ out[s].metrics[USAGE][i].value > out[s].metrics[PROVISION][j].value

\* C10: every usage entry of the published snapshot is labelled with a pool
\* of the pool list enumerated by the cycle that published it.
C10_PublishedPoolsEnumerated ==
    /\ promPath # NoInode =>
         \A i \in DOMAIN files[promPath].lines :
             files[promPath].lines[i].metric # DURATION =>
                 files[promPath].lines[i].pool \in Range(pubPools)
    /\ \A s \in Scrapers :
         (variant = "du" /\ out[s].status = "ok") =>
             \A m \in {USAGE, PROVISION} : \A i \in DOMAIN out[s].metrics[m] :
                 out[s].metrics[m][i].labels[2] \in Range(pubPools)

\* The step resolves the image image_list[iidx] and prints the given path.
Resolved(path) ==
    /\ colPc \in {"image_loop", "du_overdue"}
    /\ Len(trail') = Len(trail) + 1
    /\ trail'[Len(trail')] = path

\* The four 2-bit codes of a byte, the most significant pair first.
Codes(byte) == << byte \div 64, (byte \div 16) % 4, (byte \div 4) % 4, byte % 4 >>

\* The code of unit i in a bitmap packed four entries to the byte.
CodeOfUnit(bitmap, i) == Codes(bitmap[(i \div 4) + 1])[(i % 4) + 1]

\* C12: the used_size the scanner computes is unit_size times the number of
\* units i in 1..num_units-1 whose code is 1 or 2; codes 0 and 3 and unit 0
\* never count.
C12_ScannerCountsCodes1And2 ==
    [][Resolved("object_map") =>
          LET image == image_list[iidx]
          IN  usage_list'[Len(usage_list')].used_size =
                  image.obj_size *
                  Cardinality({ i \in 1..(image.num_objs - 1) :
                                  CodeOfUnit(image.bitmap, i) \in {1, 2} })]_vars

\* The scanner has run over an all-allocated bitmap of 8 units of size 1.
C12_Witness ==
    /\ colPc = "update"
    /\ trail = <<"object_map">>
    /\ usage_list[1].provisioned_size = 8
    /\ usage_list[1].used_size = 7

\* C13: an image that has the object-map feature and whose scan raises is
\* resolved through the external usage query: its resolution never ends
\* with the scan's error.
C13_ScanErrorFallsBack ==
    [][~Resolved("object_map_error")]_vars

\* C14: a scan that fails contributes no used_size: the step that ends the
\* resolution of an image with the scan's error adds no entry, and an entry
\* of the object-map branch is added only when every read of the scan has
\* returned its byte.
C14_FailedScanAddsNothing ==
    [][/\ Resolved("object_map_error") => usage_list' = usage_list
       /\ Resolved("object_map") => ScanReadable(image_list[iidx])]_vars

\* The scan of an image whose object map ends after unit 3 of 5 units has
\* failed, and the pool has no entry.
C14_Witness ==
    /\ colPc = "image_loop"
    /\ iidx = 2
    /\ image_list[1] = ImageShort
    /\ ~ScanReadable(image_list[1]) /\ ReadByte(image_list[1], 3) # <<>>
    /\ trail = <<"object_map_error">>
    /\ usage_list = <<>>

\* C15: an image resolved through the external usage query contributes at
\* most one entry, and that entry carries the image's name.
C15_FallbackAddsOwnEntryOnly ==
    [][Resolved("du") =>
          \/ usage_list' = usage_list
          \/ /\ Len(usage_list') = Len(usage_list) + 1
             /\ SubSeq(usage_list', 1, Len(usage_list)) = usage_list
             /\ usage_list'[Len(usage_list')].name = image_list[iidx].name]_vars

\* The feature mask holds the value 8 as one of its bits.
HasBit8(features) == (features % 16) >= 8

Samples(tbl) == UNION { Range(tbl[m]) : m \in MetricNames }

\* The step ends a scrape of s that returns a body.
Returns(s) == spc[s] # "idle" /\ spc'[s] = "idle" /\ out'[s].status = "ok"

\* C11: publishing again without new collection output leaves what readers
\* see unchanged (a _rename_tmp that finds no temporary file changes neither
\* the published path nor any file), and no scrape returns entries of two
\* different published snapshots.
C11_PublishIdempotentNoTornRead ==
    [][/\ (variant = "file" /\ colPc = "rename" /\ tmpPath = NoInode) =>
            (promPath' = promPath /\ files' = files)
       /\ \A s \in AllScrapers :
            Returns(s) =>
                \A x, y \in Samples(out'[s].metrics) : x.snap = y.snap]_vars

\* The collection passes that have started and not ended.
PassesInProgress ==
    (IF colPc # "idle" THEN 1 ELSE 0)
    + Cardinality({ s \in AllScrapers : saved[s] # NoContext })

\* C17: at every moment at most one collection pass is in progress, also
\* while several scrapes are handled.
C17_OnePassAtATime == PassesInProgress <= 1

\* C18: a scrape returns exactly the entries it has read itself, each once:
\* every sample of its result was added by this scrape, and there are as
\* many as the lines of the file it read (file variant) or as the samples
\* its pass produced (du variant).
C18_ScrapeReturnsWhatItRead ==
    [][\A s \in AllScrapers :
          Returns(s) =>
              /\ \A x \in Samples(out'[s].metrics) : x.by = s
              /\ Count(out'[s].metrics) =
                     IF variant = "file" THEN Len(files[fd[s]].lines)
                     ELSE seqno + 1]_vars

\* C19: a scrape that starts after pass k has published returns entries of
\* the snapshot published by pass k or by a later pass only.
C19_ScrapeServesLatestSnapshot ==
    [][\A s \in AllScrapers :
          (variant = "file" /\ Returns(s)) =>
              \A x \in Samples(out'[s].metrics) : x.snap >= since[s]]_vars
=============================================================================
